---- MODULE Spec2Model ----
(***************************************************************************)
(* Model of the hierarchical multi-stage classifier:                       *)
(*   classifier/draft_classifier/orchestrator.py  (HierarchicalClassifier) *)
(*   classifier/draft_classifier/dynamic_schema.py (DynamicSchemaGenerator)*)
(*   classifier/draft_classifier/prompt_loader.py  (PromptLoader)          *)
(*   classifier/utils/hierarchy_navigator.py       (HierarchyNavigator)    *)
(* Under Spec one behaviour is one call of classify_comments on a fresh     *)
(* classifier; under DetSpec the call is made a second time on the same    *)
(* instance, against an engine that answers a prompt the same way each time;*)
(* under QuerySpec one behaviour is one query of the navigator or of the    *)
(* schema generator.                                                        *)
(* The generation engine (processor) is the environment: each invocation   *)
(* returns, per prompt, either the invalid sentinel or a container that    *)
(* satisfies the schema of the batch.                                      *)
(***************************************************************************)
EXTENDS Naturals, Sequences, FiniteSets, TLC

VARIABLES
    comments,          \* the list of comment strings passed to the call
    max_stage,         \* the max_stage argument
    hierarchy,         \* the taxonomy JSON (read-only)
    templates,         \* the YAML files consulted so far: <<stage, filename>> ->
                       \* "ready" | "not_ready" (ready: false) | "missing"
    pc,                \* "CALLED" | "PENDING" | "DONE" | "STOP" | "ERROR"
    stage,             \* the stage being run (0 before stage 1)
    stage_results,     \* <<stage1_results, stage2_results, ...>> of the stages completed
    tasks_by_context,  \* contexts of the running stage still to be processed
    all_results,       \* result map under construction in the running stage
    yaml_usage,        \* self.yaml_usage
    log,               \* prompts loaded, schemas generated, engine invocations
    final_outputs,     \* the returned list
    history,           \* the calls this instance has completed before this one
    output_budget,     \* the number of spans and unparseable responses the
                       \* engine returns at most during one call
    query              \* the navigator or schema-generator method called, its
                       \* arguments and what it returned

vars == <<comments, max_stage, hierarchy, templates, pc, stage, stage_results,
          tasks_by_context, all_results, yaml_usage, log, final_outputs, history,
          output_budget, query>>

-----------------------------------------------------------------------------
(* Bounds of the model *)

MaxComments == 2
\* what the engine returns in one call: spans plus invalid responses
MaxOutput == 4
MaxDeepOutput == 5

-----------------------------------------------------------------------------
(* Values *)

None == "None"

\* The invalid sentinel of parse_results_with_schema
Invalid == [invalid |-> TRUE]

Sentiments == <<"positive", "negative", "neutral", "mixed">>

Min(a, b) == IF a <= b THEN a ELSE b

RECURSIVE Concat(_)
Concat(ss) == IF ss = <<>> THEN <<>> ELSE Head(ss) \o Concat(Tail(ss))

RECURSIVE SumSeq(_)
SumSeq(s) == IF s = <<>> THEN 0 ELSE Head(s) + SumSeq(Tail(s))

Range(s) == {s[i] : i \in 1..Len(s)}

-----------------------------------------------------------------------------
(* Python dict: insertion-ordered; assigning an existing key keeps its place *)

EmptyDict == [keys |-> <<>>, val |-> <<>>]

DictHas(d, k) == \E i \in 1..Len(d.keys) : d.keys[i] = k

DictIndex(d, k) == CHOOSE i \in 1..Len(d.keys) : d.keys[i] = k

DictGet(d, k) == d.val[DictIndex(d, k)]

DictSet(d, k, v) ==
    IF DictHas(d, k)
    THEN [d EXCEPT !.val[DictIndex(d, k)] = v]
    ELSE [keys |-> Append(d.keys, k), val |-> Append(d.val, v)]

-----------------------------------------------------------------------------
(* HierarchyNavigator *)

Node(name, children) == [name |-> name, children |-> children]

\* root -> Venue -> (Hotel -> Room -> Size, Food), Wi-Fi (no children)
VenueHierarchy ==
    Node("root", <<
        Node("Venue", <<
            Node("Hotel", << Node("Room", << Node("Size", <<>>) >>) >>),
            Node("Food", <<>>) >>),
        Node("Wi-Fi", <<>>) >>)

Hierarchies == {VenueHierarchy}

\* a taxonomy in which the names of VenueHierarchy sit on other paths
HotelHierarchy ==
    Node("root", <<
        Node("Hotel", << Node("Venue", << Node("Size", <<>>) >>), Node("Room", <<>>) >>),
        Node("Food", << Node("Room", << Node("Wi-Fi", << Node("Size", <<>>) >>) >>) >>) >>)

Names(nodes) == [i \in 1..Len(nodes) |-> nodes[i].name]

\* first child with the given name; NoNode when there is none
NoNode == Node(None, <<>>)

FindChild(nodes, name) ==
    IF \E i \in 1..Len(nodes) : nodes[i].name = name
    THEN nodes[CHOOSE i \in 1..Len(nodes) :
                  /\ nodes[i].name = name
                  /\ \A j \in 1..(i - 1) : nodes[j].name # name]
    ELSE NoNode

\* _category_cache: a later category of the same name replaces an earlier one
get_category_node(h, category) ==
    IF \E i \in 1..Len(h.children) : h.children[i].name = category
    THEN h.children[CHOOSE i \in 1..Len(h.children) :
                  /\ h.children[i].name = category
                  /\ \A j \in (i + 1)..Len(h.children) : h.children[j].name # category]
    ELSE NoNode

get_categories(h) == Names(h.children)

get_subcategories(h, category) ==
    LET cat_node == get_category_node(h, category)
    IN  IF cat_node = NoNode THEN <<>> ELSE Names(cat_node.children)

\* variant: the sub-category is looked up under every category
get_subcategory_node_any_category(h, category, subcategory) ==
    IF \E i \in 1..Len(h.children) : FindChild(h.children[i].children, subcategory) # NoNode
    THEN FindChild(h.children[CHOOSE i \in 1..Len(h.children) :
                       /\ FindChild(h.children[i].children, subcategory) # NoNode
                       /\ \A j \in 1..(i - 1) :
                             FindChild(h.children[j].children, subcategory) = NoNode].children,
                   subcategory)
    ELSE NoNode

get_subcategory_node(h, category, subcategory) ==
    LET cat_node == get_category_node(h, category)
    IN  IF cat_node = NoNode THEN NoNode ELSE FindChild(cat_node.children, subcategory)

get_elements(h, category, subcategory) ==
    IF subcategory = None
    THEN LET cat_node == get_category_node(h, category)
         IN  IF cat_node = NoNode THEN <<>> ELSE Names(cat_node.children)
    ELSE LET subcat_node == get_subcategory_node(h, category, subcategory)
         IN  IF subcat_node = NoNode THEN <<>> ELSE Names(subcat_node.children)

\* variant without the 3-level branch: the element is always looked up under a
\* sub-category
get_element_node_by_subcategory(h, category, subcategory, element) ==
    LET subcat_node == get_subcategory_node(h, category, subcategory)
    IN  IF subcat_node = NoNode THEN NoNode
        ELSE FindChild(subcat_node.children, element)

get_element_node(h, category, subcategory, element) ==
    IF subcategory = None
    THEN LET cat_node == get_category_node(h, category)
         IN  IF cat_node = NoNode THEN NoNode ELSE FindChild(cat_node.children, element)
    ELSE LET subcat_node == get_subcategory_node(h, category, subcategory)
         IN  IF subcat_node = NoNode THEN NoNode
             ELSE FindChild(subcat_node.children, element)

get_attributes(h, category, subcategory, element) ==
    LET elem_node == get_element_node(h, category, subcategory, element)
    IN  IF elem_node = NoNode THEN <<>> ELSE Names(elem_node.children)

-----------------------------------------------------------------------------
(* DynamicSchemaGenerator: a schema is the stage and the Literal of its     *)
(* label field                                                              *)

Schema(n, labels) == [stage |-> n, labels |-> labels]

get_stage1_schema(h) == Schema(1, Range(get_categories(h)))

get_stage2_schema(h, category) ==
    LET subcategories == get_subcategories(h, category)
    IN  IF subcategories = <<>> THEN Schema(2, {""})
        ELSE Schema(2, Range(subcategories))

\* variant: the element schema of the category alone
get_stage3_schema_of_category(h, category, sub_category) ==
    LET elements == get_elements(h, category, None)
    IN  IF elements = <<>> THEN Schema(3, {""})
        ELSE Schema(3, Range(elements))

get_stage3_schema(h, category, sub_category) ==
    LET elements == get_elements(h, category, sub_category)
    IN  IF elements = <<>> THEN Schema(3, {""})
        ELSE Schema(3, Range(elements))

get_stage4_schema(h, category, sub_category, element) ==
    LET attributes == get_attributes(h, category, sub_category, element)
    IN  IF attributes = <<>> THEN Schema(4, {""})
        ELSE Schema(4, Range(attributes))

\* the schema of a context path (the category; category, sub_category; ...)
SchemaFor(h, n, ctx) ==
    CASE n = 1 -> get_stage1_schema(h)
      [] n = 2 -> get_stage2_schema(h, ctx[1])
      [] n = 3 -> get_stage3_schema(h, ctx[1], ctx[2])
      [] n = 4 -> get_stage4_schema(h, ctx[1], ctx[2], ctx[3])

\* the context argument of validate_prediction: a dict (a function on its
\* keys), or the default None when the argument is omitted
Context(dict) == [given |-> TRUE, dict |-> dict]

NoContext == [given |-> FALSE, dict |-> <<>>]

\* context.get(key): None for a missing key
ContextGet(context, key) ==
    IF key \in DOMAIN context.dict THEN context.dict[key] ELSE None

\* what a call comes to: a returned value or a raised exception
Returning(value) == [value |-> value, raised |-> None]

Raising(exception) == [value |-> None, raised |-> exception]

\* with the context omitted, stages 2..4 call None.get: AttributeError
validate_prediction(h, n, predicted_label, context) ==
    CASE n = 1 -> Returning(predicted_label \in Range(get_categories(h)))
      [] n \in 2..4 /\ ~context.given -> Raising("AttributeError")
      [] n = 2 ->
            Returning(predicted_label \in
                Range(get_subcategories(h, ContextGet(context, "category"))))
      [] n = 3 ->
            Returning(predicted_label \in
                Range(get_elements(h, ContextGet(context, "category"),
                                      ContextGet(context, "sub_category"))))
      [] n = 4 ->
            Returning(predicted_label \in
                Range(get_attributes(h, ContextGet(context, "category"),
                                        ContextGet(context, "sub_category"),
                                        ContextGet(context, "element"))))
      [] OTHER -> Returning(FALSE)

-----------------------------------------------------------------------------
(* PromptLoader *)

UpperCase == <<"A","B","C","D","E","F","G","H","I","J","K","L","M",
               "N","O","P","Q","R","S","T","U","V","W","X","Y","Z">>
LowerCase == <<"a","b","c","d","e","f","g","h","i","j","k","l","m",
               "n","o","p","q","r","s","t","u","v","w","x","y","z">>

\* the labels the taxonomy and the engine can produce, and their characters
Labels == {"Venue", "Wi-Fi", "Hotel", "Food", "Room", "Size", ""}

LabelChars(label) ==
    CASE label = "Venue" -> <<"V","e","n","u","e">>
      [] label = "Wi-Fi" -> <<"W","i","-","F","i">>
      [] label = "Hotel" -> <<"H","o","t","e","l">>
      [] label = "Food"  -> <<"F","o","o","d">>
      [] label = "Room"  -> <<"R","o","o","m">>
      [] label = "Size"  -> <<"S","i","z","e">>
      [] label = ""      -> <<>>

Lower(c) ==
    IF \E i \in 1..Len(UpperCase) : UpperCase[i] = c
    THEN LowerCase[CHOOSE i \in 1..Len(UpperCase) : UpperCase[i] = c]
    ELSE c

\* str.replace: every non-overlapping occurrence, left to right
RECURSIVE Replace(_, _, _)
Replace(s, old, new) ==
    IF Len(s) < Len(old) THEN s
    ELSE IF SubSeq(s, 1, Len(old)) = old
         THEN new \o Replace(SubSeq(s, Len(old) + 1, Len(s)), old, new)
         ELSE <<Head(s)>> \o Replace(Tail(s), old, new)

RECURSIVE JoinChars(_)
JoinChars(cs) == IF cs = <<>> THEN "" ELSE Head(cs) \o JoinChars(Tail(cs))

label_to_filename(label) ==
    LET lowered == [i \in 1..Len(LabelChars(label)) |-> Lower(LabelChars(label)[i])]
        r1 == Replace(lowered, <<"/">>, <<"_">>)
        r2 == Replace(r1, <<" ", "&", " ">>, <<"_","a","n","d","_">>)
        r3 == Replace(r2, <<"&">>, <<"_","a","n","d","_">>)
        r4 == Replace(r3, <<"-">>, <<"_">>)
        r5 == Replace(r4, <<" ">>, <<"_">>)
        r6 == Replace(r5, <<"(">>, <<>>)
        r7 == Replace(r6, <<")">>, <<>>)
    IN  JoinChars(r7) \o ".yaml"

\* label_to_filename on every label, computed once
Filename == [label \in Labels |-> label_to_filename(label)]

is_yaml_ready(tpl, yaml_path) ==
    IF tpl[yaml_path] = "missing" THEN FALSE
    ELSE tpl[yaml_path] = "ready"

Prompt(n, filename, comment) == [stage |-> n, filename |-> filename, comment |-> comment]

NoPrompt == Prompt(0, None, None)

load_stage1_prompt(comment) == Prompt(1, "category_prompt.yaml", comment)

load_stage2_prompt(tpl, comment, category) ==
    LET filename == Filename[category]
    IN  IF ~is_yaml_ready(tpl, <<2, filename>>) THEN NoPrompt
        ELSE Prompt(2, filename, comment)

load_stage3_prompt(tpl, comment, category, sub_category) ==
    LET filename == Filename[sub_category]
    IN  IF ~is_yaml_ready(tpl, <<3, filename>>) THEN NoPrompt
        ELSE Prompt(3, filename, comment)

load_stage4_prompt(tpl, comment, category, sub_category, element) ==
    LET filename == Filename[element]
    IN  IF ~is_yaml_ready(tpl, <<4, filename>>) THEN NoPrompt
        ELSE Prompt(4, filename, comment)

LoadPrompt(tpl, n, comment, ctx) ==
    CASE n = 2 -> load_stage2_prompt(tpl, comment, ctx[1])
      [] n = 3 -> load_stage3_prompt(tpl, comment, ctx[1], ctx[2])
      [] n = 4 -> load_stage4_prompt(tpl, comment, ctx[1], ctx[2], ctx[3])

\* the files list_required_yamls names for stages 2..4
RequiredYamls(h) ==
    LET cats == Range(get_categories(h))
    IN  {<<2, Filename[c]>> : c \in cats}
        \cup UNION {{<<3, Filename[s]>> : s \in Range(get_subcategories(h, c))}
                    : c \in cats}
        \cup UNION {UNION {{<<4, Filename[e]>> : e \in Range(get_elements(h, c, s))}
                           : s \in Range(get_subcategories(h, c))} : c \in cats}

-----------------------------------------------------------------------------
(* Generation engine: process_with_schema followed by                       *)
(* parse_results_with_schema(validate=True)                                 *)

Span(n, p, label) ==
    [excerpt   |-> "x" \o ToString(n) \o ToString(p),
     reasoning |-> "r" \o ToString(n) \o ToString(p),
     label     |-> label,
     sentiment |-> Sentiments[((3 * p + 2) % 4) + 1]]

Container(n, labs) ==
    [classifications |-> [p \in 1..Len(labs) |-> Span(n, p, labs[p])]]

\* what parsing can return for one response under a schema
ParsedResults(schema, budget) ==
    {Invalid} \cup
    UNION {{Container(schema.stage, labs) : labs \in [1..k -> schema.labels]}
           : k \in 0..budget}

NSpans(r) == IF r = Invalid THEN 0 ELSE Len(r.classifications)

\* the share of the engine's output one response takes
Cost(r) == IF r = Invalid THEN 1 ELSE Len(r.classifications)

\* what parsing can return for a batch of k prompts: same length, same order
RECURSIVE ParsedBatches(_, _, _)
ParsedBatches(k, schema, budget) ==
    IF k = 0 THEN {<<>>}
    ELSE UNION {{<<r>> \o rest : rest \in ParsedBatches(k - 1, schema, budget - Cost(r))}
                : r \in {x \in ParsedResults(schema, budget) : Cost(x) <= budget}}

\* what an engine that is a function of the prompt can return for the tasks of
\* a batch: the answer it gave before to a prompt it has seen (known holds the
\* pairs <<key, answer>>; the key of a task fixes its prompt), any parse
\* otherwise
RECURSIVE FunctionBatches(_, _, _, _)
FunctionBatches(task_indices, schema, budget, known) ==
    IF task_indices = <<>> THEN {<<>>}
    ELSE LET key == Head(task_indices)
             before == {q[2] : q \in {x \in known : x[1] = key}}
             first == {x \in IF before # {} THEN before
                                ELSE ParsedResults(schema, budget) : Cost(x) <= budget}
         IN  UNION {{<<r>> \o rest :
                        rest \in FunctionBatches(Tail(task_indices), schema,
                                                 budget - Cost(r),
                                                 known \cup {<<key, r>>})}
                    : r \in first}

Event(op, n, ctx, keys, parsed) ==
    [op |-> op, stage |-> n, ctx |-> ctx, keys |-> keys, parsed |-> parsed]

-----------------------------------------------------------------------------
(* _build_final_output *)

NoSpan == [excerpt |-> None, reasoning |-> None, label |-> None, sentiment |-> None]

\* variant that copies the Stage-1 sentiment into the Stage-2 sentiment
ClassificationSpan_parent_sentiment(cat_span, subcat_span, elem_span, attr_span) ==
    [category         |-> cat_span.label,
     stage1_excerpt   |-> cat_span.excerpt,
     stage1_reasoning |-> cat_span.reasoning,
     stage1_sentiment |-> cat_span.sentiment,
     sub_category     |-> subcat_span.label,
     stage2_excerpt   |-> subcat_span.excerpt,
     stage2_reasoning |-> subcat_span.reasoning,
     stage2_sentiment |-> IF subcat_span = NoSpan THEN None ELSE cat_span.sentiment,
     element          |-> elem_span.label,
     stage3_excerpt   |-> elem_span.excerpt,
     stage3_reasoning |-> elem_span.reasoning,
     stage3_sentiment |-> elem_span.sentiment,
     attribute        |-> attr_span.label,
     stage4_excerpt   |-> attr_span.excerpt,
     stage4_reasoning |-> attr_span.reasoning,
     stage4_sentiment |-> attr_span.sentiment]

\* models.ClassificationSpan: the fields not passed keep their default None
ClassificationSpan(cat_span, subcat_span, elem_span, attr_span) ==
    [category         |-> cat_span.label,
     stage1_excerpt   |-> cat_span.excerpt,
     stage1_reasoning |-> cat_span.reasoning,
     stage1_sentiment |-> cat_span.sentiment,
     sub_category     |-> subcat_span.label,
     stage2_excerpt   |-> subcat_span.excerpt,
     stage2_reasoning |-> subcat_span.reasoning,
     stage2_sentiment |-> subcat_span.sentiment,
     element          |-> elem_span.label,
     stage3_excerpt   |-> elem_span.excerpt,
     stage3_reasoning |-> elem_span.reasoning,
     stage3_sentiment |-> elem_span.sentiment,
     attribute        |-> attr_span.label,
     stage4_excerpt   |-> attr_span.excerpt,
     stage4_reasoning |-> attr_span.reasoning,
     stage4_sentiment |-> attr_span.sentiment]

FinalClassificationOutput(comment, classifications) ==
    [original_comment |-> comment, classifications |-> classifications]

\* "if stage2_results is None": only stage 1 was run
RecordsStage1(stage1_result) ==
    [p \in 1..Len(stage1_result.classifications) |->
        ClassificationSpan(stage1_result.classifications[p], NoSpan, NoSpan, NoSpan)]

\* variant of the stage-2 expansion that looks the children up under the key
\* of the first comment instead of the comment being assembled
RecordsStage2_first_comment(comment_idx, stage1_result, stage2_results) ==
    Concat([p \in 1..Len(stage1_result.classifications) |->
        LET cat_span == stage1_result.classifications[p]
            key2 == <<1, cat_span.label>>
        IN  IF ~DictHas(stage2_results, key2)
               \/ DictGet(stage2_results, key2).classifications = <<>>
            THEN <<ClassificationSpan(cat_span, NoSpan, NoSpan, NoSpan)>>
            ELSE LET subs == DictGet(stage2_results, key2).classifications
                 IN  [q \in 1..Len(subs) |->
                        ClassificationSpan(cat_span, subs[q], NoSpan, NoSpan)]])

\* "elif stage3_results is None": stage 2 was run
RecordsStage2(comment_idx, stage1_result, stage2_results) ==
    Concat([p \in 1..Len(stage1_result.classifications) |->
        LET cat_span == stage1_result.classifications[p]
            key2 == <<comment_idx, cat_span.label>>
        IN  IF ~DictHas(stage2_results, key2)
               \/ DictGet(stage2_results, key2).classifications = <<>>
            THEN <<ClassificationSpan(cat_span, NoSpan, NoSpan, NoSpan)>>
            ELSE LET subs == DictGet(stage2_results, key2).classifications
                 IN  [q \in 1..Len(subs) |->
                        ClassificationSpan(cat_span, subs[q], NoSpan, NoSpan)]])

\* variant of the stage-3 expansion whose element records leave the
\* sub-category fields out
RecordsStage3_without_subcategory(comment_idx, stage1_result, stage2_results, stage3_results) ==
    Concat([p \in 1..Len(stage1_result.classifications) |->
        LET cat_span == stage1_result.classifications[p]
            key2 == <<comment_idx, cat_span.label>>
        IN  IF ~DictHas(stage2_results, key2)
            THEN <<>>
            ELSE LET subs == DictGet(stage2_results, key2).classifications
                 IN  Concat([q \in 1..Len(subs) |->
                        LET key3 == <<comment_idx, cat_span.label, subs[q].label>>
                        IN  IF ~DictHas(stage3_results, key3)
                               \/ DictGet(stage3_results, key3).classifications = <<>>
                            THEN <<ClassificationSpan(cat_span, subs[q], NoSpan, NoSpan)>>
                            ELSE LET elems == DictGet(stage3_results, key3).classifications
                                 IN  [r \in 1..Len(elems) |->
                                        ClassificationSpan(cat_span, NoSpan, elems[r],
                                                           NoSpan)]])])

\* "elif stage4_results is None": stage 3 was run
RecordsStage3(comment_idx, stage1_result, stage2_results, stage3_results) ==
    Concat([p \in 1..Len(stage1_result.classifications) |->
        LET cat_span == stage1_result.classifications[p]
            key2 == <<comment_idx, cat_span.label>>
        IN  IF ~DictHas(stage2_results, key2)
            THEN <<>>
            ELSE LET subs == DictGet(stage2_results, key2).classifications
                 IN  Concat([q \in 1..Len(subs) |->
                        LET key3 == <<comment_idx, cat_span.label, subs[q].label>>
                        IN  IF ~DictHas(stage3_results, key3)
                               \/ DictGet(stage3_results, key3).classifications = <<>>
                            THEN <<ClassificationSpan(cat_span, subs[q], NoSpan, NoSpan)>>
                            ELSE LET elems == DictGet(stage3_results, key3).classifications
                                 IN  [r \in 1..Len(elems) |->
                                        ClassificationSpan(cat_span, subs[q], elems[r],
                                                           NoSpan)]])])

\* "else": stage 4 was run
RecordsStage4(comment_idx, stage1_result, stage2_results, stage3_results, stage4_results) ==
    Concat([p \in 1..Len(stage1_result.classifications) |->
        LET cat_span == stage1_result.classifications[p]
            key2 == <<comment_idx, cat_span.label>>
        IN  IF ~DictHas(stage2_results, key2)
            THEN <<>>
            ELSE LET subs == DictGet(stage2_results, key2).classifications
                 IN  Concat([q \in 1..Len(subs) |->
                        LET key3 == <<comment_idx, cat_span.label, subs[q].label>>
                        IN  IF ~DictHas(stage3_results, key3)
                            THEN <<>>
                            ELSE LET elems == DictGet(stage3_results, key3).classifications
                                 IN  Concat([r \in 1..Len(elems) |->
                                        LET key4 == <<comment_idx, cat_span.label,
                                                      subs[q].label, elems[r].label>>
                                        IN  IF ~DictHas(stage4_results, key4)
                                               \/ DictGet(stage4_results, key4).classifications
                                                    = <<>>
                                            THEN <<ClassificationSpan(cat_span, subs[q],
                                                                      elems[r], NoSpan)>>
                                            ELSE LET attrs ==
                                                       DictGet(stage4_results, key4)
                                                           .classifications
                                                 IN  [t \in 1..Len(attrs) |->
                                                        ClassificationSpan(cat_span, subs[q],
                                                            elems[r], attrs[t])]])])])

\* variant that gives a comment without a Stage-1 result one record with every
\* field unset, as FinalClassificationOutput.to_records does for its rows
Classifications_placeholder(comment_idx, results) ==
    IF ~DictHas(results[1], <<comment_idx>>)
    THEN <<ClassificationSpan(NoSpan, NoSpan, NoSpan, NoSpan)>>
    ELSE LET stage1_result == DictGet(results[1], <<comment_idx>>)
         IN  CASE Len(results) = 1 -> RecordsStage1(stage1_result)
               [] Len(results) = 2 ->
                     RecordsStage2(comment_idx, stage1_result, results[2])
               [] Len(results) = 3 ->
                     RecordsStage3(comment_idx, stage1_result, results[2], results[3])
               [] OTHER ->
                     RecordsStage4(comment_idx, stage1_result, results[2], results[3],
                                   results[4])

\* the classifications of one comment; results holds the maps that were passed
\* (a stage that was not passed is None in the code)
Classifications(comment_idx, results) ==
    IF ~DictHas(results[1], <<comment_idx>>) THEN <<>>
    ELSE LET stage1_result == DictGet(results[1], <<comment_idx>>)
         IN  CASE Len(results) = 1 -> RecordsStage1(stage1_result)
               [] Len(results) = 2 ->
                     RecordsStage2(comment_idx, stage1_result, results[2])
               [] Len(results) = 3 ->
                     RecordsStage3(comment_idx, stage1_result, results[2], results[3])
               [] OTHER ->
                     RecordsStage4(comment_idx, stage1_result, results[2], results[3],
                                   results[4])

\* a comment without a Stage-1 result is passed over, no output appended
build_final_output_skipping(cmts, results) ==
    LET with_result == SelectSeq([i \in 1..Len(cmts) |-> i],
                                 LAMBDA i : DictHas(results[1], <<i>>))
    IN  [k \in 1..Len(with_result) |->
            FinalClassificationOutput(cmts[with_result[k]],
                                      Classifications(with_result[k], results))]

build_final_output(cmts, results) ==
    [comment_idx \in 1..Len(cmts) |->
        FinalClassificationOutput(cmts[comment_idx],
                                  Classifications(comment_idx, results))]

-----------------------------------------------------------------------------
(* Task construction of _run_stage2, _run_stage3, _run_stage4: the loop over *)
(* the parent results, in dict order, then span order                        *)

\* every (parent key, span) of a result map, in iteration order
ParentSpans(parent_results) ==
    Concat([j \in 1..Len(parent_results.keys) |->
        [p \in 1..Len(parent_results.val[j].classifications) |->
            [key  |-> parent_results.keys[j],
             span |-> parent_results.val[j].classifications[p]]]])

Task(comment_idx, comment, prompt) ==
    [comment_idx |-> comment_idx, comment |-> comment, prompt |-> prompt]

NoTasks == [tasks |-> EmptyDict, used |-> {}, skipped |-> {}, loads |-> <<>>]

\* variant of the loop body that passes over a label the instance has already
\* recorded as used for the stage
ScanStep_once(acc, tpl, cmts, n, item) ==
    IF item.span.label \in yaml_usage[n].used
    THEN [acc EXCEPT !.skipped = @ \cup {item.span.label}]
    ELSE LET comment_idx == item.key[1]
             comment == cmts[comment_idx]
             ctx == Tail(item.key) \o <<item.span.label>>
             prompt == LoadPrompt(tpl, n, comment, ctx)
             load == Event("load", n, ctx, <<item.key>>, <<>>)
         IN  IF prompt = NoPrompt
             THEN [acc EXCEPT !.skipped = @ \cup {item.span.label},
                              !.loads = Append(@, load)]
             ELSE [acc EXCEPT
                     !.used = @ \cup {item.span.label},
                     !.loads = Append(@, load),
                     !.tasks = DictSet(@, ctx,
                                 Append(IF DictHas(acc.tasks, ctx)
                                        THEN DictGet(acc.tasks, ctx) ELSE <<>>,
                                        Task(comment_idx, comment, prompt)))]

\* variant that records the label as used before the prompt is looked at
ScanStep_used_first(acc, tpl, cmts, n, item) ==
    LET comment_idx == item.key[1]
        comment == cmts[comment_idx]
        ctx == Tail(item.key) \o <<item.span.label>>
        prompt == LoadPrompt(tpl, n, comment, ctx)
        load == Event("load", n, ctx, <<item.key>>, <<>>)
    IN  IF prompt = NoPrompt
        THEN [acc EXCEPT !.used = @ \cup {item.span.label},
                         !.skipped = @ \cup {item.span.label},
                         !.loads = Append(@, load)]
        ELSE [acc EXCEPT
                !.used = @ \cup {item.span.label},
                !.loads = Append(@, load),
                !.tasks = DictSet(@, ctx,
                            Append(IF DictHas(acc.tasks, ctx)
                                   THEN DictGet(acc.tasks, ctx) ELSE <<>>,
                                   Task(comment_idx, comment, prompt)))]

\* variant that files every task under the first comment
ScanStep_first_comment(acc, tpl, cmts, n, item) ==
    LET comment_idx == 1
        comment == cmts[comment_idx]
        ctx == Tail(item.key) \o <<item.span.label>>
        prompt == LoadPrompt(tpl, n, comment, ctx)
        load == Event("load", n, ctx, <<item.key>>, <<>>)
    IN  IF prompt = NoPrompt
        THEN [acc EXCEPT !.skipped = @ \cup {item.span.label},
                         !.loads = Append(@, load)]
        ELSE [acc EXCEPT
                !.used = @ \cup {item.span.label},
                !.loads = Append(@, load),
                !.tasks = DictSet(@, ctx,
                            Append(IF DictHas(acc.tasks, ctx)
                                   THEN DictGet(acc.tasks, ctx) ELSE <<>>,
                                   Task(comment_idx, comment, prompt)))]

\* one iteration of the loop body, on the accumulated state acc
ScanStep(acc, tpl, cmts, n, item) ==
    LET comment_idx == item.key[1]
        comment == cmts[comment_idx]
        ctx == Tail(item.key) \o <<item.span.label>>
        prompt == LoadPrompt(tpl, n, comment, ctx)
        load == Event("load", n, ctx, <<item.key>>, <<>>)
    IN  IF prompt = NoPrompt
        THEN [acc EXCEPT !.skipped = @ \cup {item.span.label},
                         !.loads = Append(@, load)]
        ELSE [acc EXCEPT
                !.used = @ \cup {item.span.label},
                !.loads = Append(@, load),
                !.tasks = DictSet(@, ctx,
                            Append(IF DictHas(acc.tasks, ctx)
                                   THEN DictGet(acc.tasks, ctx) ELSE <<>>,
                                   Task(comment_idx, comment, prompt)))]

RECURSIVE ScanTasks(_, _, _, _, _)
ScanTasks(acc, tpl, cmts, n, items) ==
    IF items = <<>> THEN acc
    ELSE ScanTasks(ScanStep(acc, tpl, cmts, n, Head(items)), tpl, cmts, n, Tail(items))

\* variant that stores every result of a batch under the key of its first task
RECURSIVE StoreResults_first_key(_, _, _)
StoreResults_first_key(results, task_indices, parsed) ==
    IF task_indices = <<>> \/ parsed = <<>> THEN results
    ELSE StoreResults_first_key(IF Head(parsed) # Invalid
                                THEN DictSet(results, Head(task_indices), Head(parsed))
                                ELSE results,
                                <<Head(task_indices)>> \o SubSeq(task_indices, 3, Len(task_indices)),
                                Tail(parsed))

\* "for (...), result in zip(task_indices, parsed): if result is not None: ..."
RECURSIVE StoreResults(_, _, _)
StoreResults(results, task_indices, parsed) ==
    IF task_indices = <<>> \/ parsed = <<>> THEN results
    ELSE StoreResults(IF Head(parsed) # Invalid
                      THEN DictSet(results, Head(task_indices), Head(parsed))
                      ELSE results,
                      Tail(task_indices), Tail(parsed))

-----------------------------------------------------------------------------
(* The call *)

StageUsage == [used |-> {}, skipped |-> {}]

InitialUsage == [n \in 1..4 |-> StageUsage]

CommentText(i) == "comment" \o ToString(i)

\* The files on disk do not change during a call; the model learns the state
\* of a file when the loader first consults it. A file list_required_yamls
\* does not name (".yaml", for the empty label) is absent.
FileStates(h, yaml_path) ==
    IF yaml_path \in RequiredYamls(h) THEN {"ready", "not_ready", "missing"}
    ELSE {"missing"}

\* the files the task loop of stage n consults
Consulted(n, parent_results) ==
    {<<n, Filename[item.span.label]>> :
        item \in Range(ParentSpans(parent_results))}

\* tpl extended by a state for every file consulted for the first time
Consult(h, tpl, files) ==
    {[f \in DOMAIN tpl \cup files |-> IF f \in DOMAIN tpl THEN tpl[f] ELSE new[f]] :
        new \in {g \in [files \ DOMAIN tpl -> {"ready", "not_ready", "missing"}] :
                    \A f \in DOMAIN g : g[f] \in FileStates(h, f)}}

\* no method of the navigator or of the schema generator has been called
NoQuery == [fn |-> None, args |-> <<>>, result |-> None, raised |-> None]

\* a call that returned a value, a call that raised an exception
Query(fn, args, result) == [fn |-> fn, args |-> args, result |-> result, raised |-> None]

Raised(fn, args, exception) ==
    [fn |-> fn, args |-> args, result |-> None, raised |-> exception]

Init ==
    /\ \E k \in 0..MaxComments : comments = [i \in 1..k |-> CommentText(i)]
    /\ max_stage \in 0..5
    /\ hierarchy \in Hierarchies
    /\ templates = [f \in {<<1, "category_prompt.yaml">>} |-> "ready"]
    /\ pc = "CALLED"
    /\ stage = 0
    /\ stage_results = <<>>
    /\ tasks_by_context = EmptyDict
    /\ all_results = EmptyDict
    /\ yaml_usage = InitialUsage
    /\ log = <<>>
    /\ final_outputs = <<>>
    /\ history = <<>>
    /\ output_budget = MaxOutput
    /\ query = NoQuery

Inputs == <<comments, max_stage, hierarchy>>

\* what the engine has returned so far in this call
OutputSoFar ==
    SumSeq([j \in 1..Len(log) |->
        IF log[j].op = "generate"
        THEN SumSeq([i \in 1..Len(log[j].parsed) |-> Cost(log[j].parsed[i])])
        ELSE 0])

\* variant of the depth check without its lower bound
ValidDepthUpperOnly(m) == m <= 4

\* "if not 1 <= max_stage <= 4: raise ValueError"
ValidDepth(m) == 1 <= m /\ m <= 4

Validate ==
    /\ pc = "CALLED"
    /\ IF ~ValidDepth(max_stage)
       THEN pc' = "ERROR" /\ stage' = stage
       ELSE pc' = "PENDING" /\ stage' = 1
    /\ UNCHANGED <<Inputs, output_budget, query, history, templates,
                   stage_results, tasks_by_context, all_results,
                   yaml_usage, log, final_outputs>>

\* the answers this instance has received from the engine, as <<key, answer>>
Answered ==
    LET all == Concat([c \in 1..Len(history) |-> history[c].log]) \o log
    IN  UNION {{<<all[j].keys[k], all[j].parsed[k]>> : k \in 1..Len(all[j].parsed)}
               : j \in {i \in 1..Len(all) : all[i].op = "generate"}}

\* what process_with_schema and parse_results_with_schema return for a batch;
\* det: the engine answers a prompt the same way every time
EngineReturns(det, task_indices, schema, budget) ==
    IF det THEN FunctionBatches(task_indices, schema, budget, Answered)
    ELSE ParsedBatches(Len(task_indices), schema, budget)

\* _run_stage1
RunStage1Under(det) ==
    /\ pc = "PENDING" /\ stage = 1
    /\ LET prompts == [i \in 1..Len(comments) |-> load_stage1_prompt(comments[i])]
           loads == [i \in 1..Len(comments) |-> Event("load", 1, <<>>, <<<<i>>>>, <<>>)]
           Stage1Schema == get_stage1_schema(hierarchy)
           task_indices == [i \in 1..Len(prompts) |-> <<i>>]
       IN  \E parsed \in EngineReturns(det, task_indices, Stage1Schema, output_budget) :
              /\ stage_results' = <<StoreResults(EmptyDict, task_indices, parsed)>>
              /\ log' = log \o loads
                            \o <<Event("schema", 1, <<>>, <<>>, <<>>),
                                 Event("generate", 1, <<>>, task_indices, parsed)>>
    /\ yaml_usage' = [yaml_usage EXCEPT ![1].used = @ \cup {"Stage 1"}]
    /\ pc' = "DONE"
    /\ UNCHANGED <<Inputs, output_budget, query, history, templates, stage,
                   tasks_by_context, all_results,
                   final_outputs>>

RunStage1 == RunStage1Under(FALSE)

\* variant that goes one stage deeper whatever max_stage is
StartStage_beyond_max_stage(n) ==
    /\ pc = "DONE" /\ stage = n - 1
    /\ templates' \in Consult(hierarchy, templates, Consulted(n, stage_results[n - 1]))
    /\ LET scan == ScanTasks(NoTasks, templates', comments, n,
                             ParentSpans(stage_results[n - 1]))
       IN  /\ yaml_usage' = [yaml_usage EXCEPT ![n].used = @ \cup scan.used,
                                               ![n].skipped = @ \cup scan.skipped]
           /\ log' = log \o scan.loads
           /\ stage' = n
           /\ all_results' = EmptyDict
           /\ IF scan.tasks = EmptyDict
              THEN /\ stage_results' = Append(stage_results, EmptyDict)
                   /\ tasks_by_context' = EmptyDict
                   /\ pc' = "DONE"
              ELSE /\ stage_results' = stage_results
                   /\ tasks_by_context' = scan.tasks
                   /\ pc' = "PENDING"
    /\ UNCHANGED <<Inputs, output_budget, query, history, final_outputs>>

\* variant for which a stage without tasks is an error
StartStage_failing_without_tasks(n) ==
    /\ pc = "DONE" /\ stage = n - 1 /\ stage < max_stage
    /\ templates' \in Consult(hierarchy, templates, Consulted(n, stage_results[n - 1]))
    /\ LET scan == ScanTasks(NoTasks, templates', comments, n,
                             ParentSpans(stage_results[n - 1]))
       IN  /\ yaml_usage' = [yaml_usage EXCEPT ![n].used = @ \cup scan.used,
                                               ![n].skipped = @ \cup scan.skipped]
           /\ log' = log \o scan.loads
           /\ stage' = n
           /\ all_results' = EmptyDict
           /\ IF scan.tasks = EmptyDict
              THEN /\ stage_results' = stage_results
                   /\ tasks_by_context' = EmptyDict
                   /\ pc' = "ERROR"
              ELSE /\ stage_results' = stage_results
                   /\ tasks_by_context' = scan.tasks
                   /\ pc' = "PENDING"
    /\ UNCHANGED <<Inputs, output_budget, query, history, final_outputs>>

\* _run_stage2/3/4 up to "if not tasks_by_...: return {}"
StartStage(n) ==
    /\ pc = "DONE" /\ stage = n - 1 /\ stage < max_stage
    /\ templates' \in Consult(hierarchy, templates, Consulted(n, stage_results[n - 1]))
    /\ LET scan == ScanTasks(NoTasks, templates', comments, n,
                             ParentSpans(stage_results[n - 1]))
       IN  /\ yaml_usage' = [yaml_usage EXCEPT ![n].used = @ \cup scan.used,
                                               ![n].skipped = @ \cup scan.skipped]
           /\ log' = log \o scan.loads
           /\ stage' = n
           /\ all_results' = EmptyDict
           /\ IF scan.tasks = EmptyDict
              THEN /\ stage_results' = Append(stage_results, EmptyDict)
                   /\ tasks_by_context' = EmptyDict
                   /\ pc' = "DONE"
              ELSE /\ stage_results' = stage_results
                   /\ tasks_by_context' = scan.tasks
                   /\ pc' = "PENDING"
    /\ UNCHANGED <<Inputs, output_budget, query, history, final_outputs>>

\* variant that invokes the engine once per task: the first task of the first
\* context, the others left for later invocations
RunBatchUnder_per_task(det) ==
    /\ pc = "PENDING" /\ stage >= 2
    /\ LET ctx == tasks_by_context.keys[1]
           context_tasks == <<tasks_by_context.val[1][1]>>
           StageSchema == SchemaFor(hierarchy, stage, ctx)
           task_indices == [j \in 1..Len(context_tasks) |->
                               <<context_tasks[j].comment_idx>> \o ctx]
           rest == IF Len(tasks_by_context.val[1]) > 1
                   THEN [tasks_by_context EXCEPT !.val[1] = Tail(@)]
                   ELSE [keys |-> Tail(tasks_by_context.keys),
                         val |-> Tail(tasks_by_context.val)]
       IN  \E parsed \in EngineReturns(det, task_indices, StageSchema,
                                        output_budget - OutputSoFar) :
              LET results == StoreResults(all_results, task_indices, parsed)
              IN  /\ log' = log \o <<Event("schema", stage, ctx, <<>>, <<>>),
                                     Event("generate", stage, ctx, task_indices, parsed)>>
                  /\ tasks_by_context' = rest
                  /\ IF rest = EmptyDict
                     THEN /\ stage_results' = Append(stage_results, results)
                          /\ all_results' = EmptyDict
                          /\ pc' = "DONE"
                     ELSE /\ stage_results' = stage_results
                          /\ all_results' = results
                          /\ pc' = "PENDING"
    /\ UNCHANGED <<Inputs, output_budget, query, history, templates, stage,
                   yaml_usage, final_outputs>>

\* one iteration of "for context, context_tasks in tasks_by_....items()"
RunBatchUnder(det) ==
    /\ pc = "PENDING" /\ stage >= 2
    /\ LET ctx == tasks_by_context.keys[1]
           context_tasks == tasks_by_context.val[1]
           StageSchema == SchemaFor(hierarchy, stage, ctx)
           task_indices == [j \in 1..Len(context_tasks) |->
                               <<context_tasks[j].comment_idx>> \o ctx]
           rest == [keys |-> Tail(tasks_by_context.keys),
                    val |-> Tail(tasks_by_context.val)]
       IN  \E parsed \in EngineReturns(det, task_indices, StageSchema,
                                        output_budget - OutputSoFar) :
              LET results == StoreResults(all_results, task_indices, parsed)
              IN  /\ log' = log \o <<Event("schema", stage, ctx, <<>>, <<>>),
                                     Event("generate", stage, ctx, task_indices, parsed)>>
                  /\ tasks_by_context' = rest
                  /\ IF rest = EmptyDict
                     THEN /\ stage_results' = Append(stage_results, results)
                          /\ all_results' = EmptyDict
                          /\ pc' = "DONE"
                     ELSE /\ stage_results' = stage_results
                          /\ all_results' = results
                          /\ pc' = "PENDING"
    /\ UNCHANGED <<Inputs, output_budget, query, history, templates, stage,
                   yaml_usage, final_outputs>>

RunBatch == RunBatchUnder(FALSE)

\* variant that returns only when the last stage run stored a result
Return_if_results ==
    /\ pc = "DONE" /\ stage = max_stage
    /\ stage_results[stage] # EmptyDict
    /\ final_outputs' = build_final_output(comments, stage_results)
    /\ pc' = "STOP"
    /\ UNCHANGED <<Inputs, output_budget, query, history, templates, stage,
                   stage_results, tasks_by_context,
                   all_results, yaml_usage, log>>

\* "if max_stage == N: return self._build_final_output(...)"
Return ==
    /\ pc = "DONE" /\ stage = max_stage
    /\ final_outputs' = build_final_output(comments, stage_results)
    /\ pc' = "STOP"
    /\ UNCHANGED <<Inputs, output_budget, query, history, templates, stage,
                   stage_results, tasks_by_context,
                   all_results, yaml_usage, log>>

Next ==
    \/ Validate
    \/ RunStage1
    \/ \E n \in 2..4 : StartStage(n)
    \/ RunBatch
    \/ Return

Spec == Init /\ [][Next]_vars

\* the call runs to its return: every step is taken by the one thread
FairSpec == Spec /\ WF_vars(Next)

-----------------------------------------------------------------------------
(* Calls of depth 3 on two comments, with one more engine output, on the    *)
(* two taxonomies                                                           *)

DeepInit ==
    /\ comments = [i \in 1..MaxComments |-> CommentText(i)]
    /\ max_stage = 3
    /\ hierarchy \in {VenueHierarchy, HotelHierarchy}
    /\ templates = [f \in {<<1, "category_prompt.yaml">>} |-> "ready"]
    /\ pc = "CALLED"
    /\ stage = 0
    /\ stage_results = <<>>
    /\ tasks_by_context = EmptyDict
    /\ all_results = EmptyDict
    /\ yaml_usage = InitialUsage
    /\ log = <<>>
    /\ final_outputs = <<>>
    /\ history = <<>>
    /\ output_budget = MaxDeepOutput
    /\ query = NoQuery

DeepSpec == DeepInit /\ [][Next]_vars

-----------------------------------------------------------------------------
(* A second call on the same instance *)

\* classify_comments called again with the same arguments once the first call
\* has returned: the locals start afresh, self.yaml_usage and the files stay
CallAgain ==
    /\ pc = "STOP" /\ history = <<>>
    /\ history' = Append(history, [log |-> log, stage_results |-> stage_results,
                                   final_outputs |-> final_outputs])
    /\ pc' = "CALLED"
    /\ stage' = 0
    /\ stage_results' = <<>>
    /\ tasks_by_context' = EmptyDict
    /\ all_results' = EmptyDict
    /\ log' = <<>>
    /\ final_outputs' = <<>>
    /\ UNCHANGED <<Inputs, output_budget, query, templates, yaml_usage>>

\* classify_comments called again on the same instance at the same depth or a
\* shallower one: max_stage is an argument of the call, self.yaml_usage is
\* created by __init__ only and the call does not clear it
CallAgainWith ==
    /\ pc = "STOP" /\ history = <<>>
    /\ max_stage' \in 1..max_stage
    /\ history' = Append(history, [log |-> log, stage_results |-> stage_results,
                                   final_outputs |-> final_outputs])
    /\ pc' = "CALLED"
    /\ stage' = 0
    /\ stage_results' = <<>>
    /\ tasks_by_context' = EmptyDict
    /\ all_results' = EmptyDict
    /\ log' = <<>>
    /\ final_outputs' = <<>>
    /\ UNCHANGED <<comments, hierarchy, output_budget, query, templates, yaml_usage>>

RecallNext ==
    \/ Validate
    \/ RunStage1Under(TRUE)
    \/ \E n \in 2..4 : StartStage(n)
    \/ RunBatchUnder(TRUE)
    \/ Return
    \/ CallAgainWith

RecallSpec == Init /\ [][RecallNext]_vars

DetNext ==
    \/ Validate
    \/ RunStage1Under(TRUE)
    \/ \E n \in 2..4 : StartStage(n)
    \/ RunBatchUnder(TRUE)
    \/ Return
    \/ CallAgain

DetSpec == Init /\ [][DetNext]_vars

-----------------------------------------------------------------------------
(* The contexts of a stage taken in another order: the second call takes    *)
(* any context of the dict next, where the code takes the first             *)

\* the dict without its c-th item
DictWithout(d, c) ==
    [keys |-> SubSeq(d.keys, 1, c - 1) \o SubSeq(d.keys, c + 1, Len(d.keys)),
     val |-> SubSeq(d.val, 1, c - 1) \o SubSeq(d.val, c + 1, Len(d.val))]

\* variant that forgets the contexts in front of the one it takes
RunBatchAt_dropping_skipped(c) ==
    /\ pc = "PENDING" /\ stage >= 2
    /\ c \in 1..Len(tasks_by_context.keys)
    /\ LET ctx == tasks_by_context.keys[c]
           context_tasks == tasks_by_context.val[c]
           StageSchema == SchemaFor(hierarchy, stage, ctx)
           task_indices == [j \in 1..Len(context_tasks) |->
                               <<context_tasks[j].comment_idx>> \o ctx]
           rest == [keys |-> SubSeq(tasks_by_context.keys, c + 1,
                                    Len(tasks_by_context.keys)),
                    val |-> SubSeq(tasks_by_context.val, c + 1,
                                   Len(tasks_by_context.val))]
       IN  \E parsed \in EngineReturns(TRUE, task_indices, StageSchema,
                                        output_budget - OutputSoFar) :
              LET results == StoreResults(all_results, task_indices, parsed)
              IN  /\ log' = log \o <<Event("schema", stage, ctx, <<>>, <<>>),
                                     Event("generate", stage, ctx, task_indices, parsed)>>
                  /\ tasks_by_context' = rest
                  /\ IF rest = EmptyDict
                     THEN /\ stage_results' = Append(stage_results, results)
                          /\ all_results' = EmptyDict
                          /\ pc' = "DONE"
                     ELSE /\ stage_results' = stage_results
                          /\ all_results' = results
                          /\ pc' = "PENDING"
    /\ UNCHANGED <<Inputs, output_budget, query, history, templates, stage, yaml_usage,
                   final_outputs>>

\* the body of the batch loop for the c-th context of the dict
RunBatchAt(c) ==
    /\ pc = "PENDING" /\ stage >= 2
    /\ c \in 1..Len(tasks_by_context.keys)
    /\ LET ctx == tasks_by_context.keys[c]
           context_tasks == tasks_by_context.val[c]
           StageSchema == SchemaFor(hierarchy, stage, ctx)
           task_indices == [j \in 1..Len(context_tasks) |->
                               <<context_tasks[j].comment_idx>> \o ctx]
           rest == DictWithout(tasks_by_context, c)
       IN  \E parsed \in EngineReturns(TRUE, task_indices, StageSchema,
                                        output_budget - OutputSoFar) :
              LET results == StoreResults(all_results, task_indices, parsed)
              IN  /\ log' = log \o <<Event("schema", stage, ctx, <<>>, <<>>),
                                     Event("generate", stage, ctx, task_indices, parsed)>>
                  /\ tasks_by_context' = rest
                  /\ IF rest = EmptyDict
                     THEN /\ stage_results' = Append(stage_results, results)
                          /\ all_results' = EmptyDict
                          /\ pc' = "DONE"
                     ELSE /\ stage_results' = stage_results
                          /\ all_results' = results
                          /\ pc' = "PENDING"
    /\ UNCHANGED <<Inputs, output_budget, query, history, templates, stage, yaml_usage,
                   final_outputs>>

\* the first call in the code's order, the second call in any order
RunBatchInAnyOrder ==
    IF history = <<>> THEN RunBatchUnder(TRUE)
    ELSE \E c \in 1..Len(tasks_by_context.keys) : RunBatchAt(c)

AnyOrderNext ==
    \/ Validate
    \/ RunStage1Under(TRUE)
    \/ \E n \in 2..4 : StartStage(n)
    \/ RunBatchInAnyOrder
    \/ Return
    \/ CallAgain

AnyOrderSpec == Init /\ [][AnyOrderNext]_vars

-----------------------------------------------------------------------------
(* Queries of the navigator and of the schema generator *)

QueryHierarchies == {VenueHierarchy, HotelHierarchy}

\* the names passed to the queries: names of the taxonomies, a name of neither
\* ("Parking"), the empty string
QueryNames == {"Venue", "Hotel", "Food", "Room", "Size", "Wi-Fi", "Parking", ""}

ContextKeys == {"category", "sub_category", "element"}

\* the context dicts: any of the keys, any names
Contexts == {Context(d) : d \in UNION {[keys -> QueryNames] : keys \in SUBSET ContextKeys}}

QueryInit ==
    /\ comments = <<>>
    /\ max_stage = 1
    /\ hierarchy \in QueryHierarchies
    /\ templates = [f \in {<<1, "category_prompt.yaml">>} |-> "ready"]
    /\ pc = "CALLED"
    /\ stage = 0
    /\ stage_results = <<>>
    /\ tasks_by_context = EmptyDict
    /\ all_results = EmptyDict
    /\ yaml_usage = InitialUsage
    /\ log = <<>>
    /\ final_outputs = <<>>
    /\ history = <<>>
    /\ output_budget = MaxOutput
    /\ query = NoQuery

\* a method returns its value and assigns nothing
Returns(fn, args, result) ==
    /\ query' = Query(fn, args, result)
    /\ UNCHANGED <<Inputs, output_budget, templates, pc, stage, stage_results, tasks_by_context,
                   all_results, yaml_usage, log, final_outputs, history>>

\* an exception leaves the call and nothing was assigned
Raises(fn, args, exception) ==
    /\ query' = Raised(fn, args, exception)
    /\ UNCHANGED <<Inputs, output_budget, templates, pc, stage, stage_results, tasks_by_context,
                   all_results, yaml_usage, log, final_outputs, history>>

QueryCategories ==
    /\ query = NoQuery
    /\ Returns("get_categories", <<>>, get_categories(hierarchy))

QuerySubcategories ==
    /\ query = NoQuery
    /\ \E c \in QueryNames :
          Returns("get_subcategories", <<c>>, get_subcategories(hierarchy, c))

QueryElements ==
    /\ query = NoQuery
    /\ \E c \in QueryNames : \E s \in QueryNames \cup {None} :
          Returns("get_elements", <<c, s>>, get_elements(hierarchy, c, s))

QueryAttributes ==
    /\ query = NoQuery
    /\ \E c \in QueryNames : \E s \in QueryNames \cup {None} : \E e \in QueryNames :
          Returns("get_attributes", <<c, s, e>>, get_attributes(hierarchy, c, s, e))

QuerySchema ==
    /\ query = NoQuery
    /\ \E n \in 1..4 : \E ctx \in [1..(n - 1) -> QueryNames] :
          Returns("get_schema", <<n, ctx>>, SchemaFor(hierarchy, n, ctx))

QueryValidate ==
    /\ query = NoQuery
    /\ \E n \in 0..5 : \E label \in QueryNames : \E context \in Contexts \cup {NoContext} :
          LET outcome == validate_prediction(hierarchy, n, label, context)
          IN  IF outcome.raised = None
              THEN Returns("validate_prediction", <<n, label, context>>, outcome.value)
              ELSE Raises("validate_prediction", <<n, label, context>>, outcome.raised)

QueryNext ==
    \/ QueryCategories
    \/ QuerySubcategories
    \/ QueryElements
    \/ QueryAttributes
    \/ QuerySchema
    \/ QueryValidate

QuerySpec == QueryInit /\ [][QueryNext]_vars

-----------------------------------------------------------------------------
(* Vocabulary of the properties *)

Returned == pc = "STOP"

\* the spans stored in stage n under key; none when the stage was not run, the
\* key is absent or the stored container is empty
ChildSpans(n, key) ==
    IF n <= Len(stage_results) /\ DictHas(stage_results[n], key)
    THEN DictGet(stage_results[n], key).classifications
    ELSE <<>>

\* A chain is the sequence of spans from a Stage-1 span of a comment down to a
\* span of depth d, each taken from the result stored for its parent's context
ChainLabels(chain) == [j \in 1..Len(chain) |-> chain[j].label]

Kids(i, chain) == ChildSpans(Len(chain) + 1, <<i>> \o ChainLabels(chain))

RECURSIVE Chains(_, _)
Chains(i, d) ==
    IF d = 0 THEN {<<>>}
    ELSE UNION {{Append(ch, Kids(i, ch)[p]) : p \in 1..Len(Kids(i, ch))}
                : ch \in Chains(i, d - 1)}

\* the field group of depth j of an output record, as a span
RecSpan(rec, j) ==
    CASE j = 1 -> [excerpt |-> rec.stage1_excerpt, reasoning |-> rec.stage1_reasoning,
                   label |-> rec.category, sentiment |-> rec.stage1_sentiment]
      [] j = 2 -> [excerpt |-> rec.stage2_excerpt, reasoning |-> rec.stage2_reasoning,
                   label |-> rec.sub_category, sentiment |-> rec.stage2_sentiment]
      [] j = 3 -> [excerpt |-> rec.stage3_excerpt, reasoning |-> rec.stage3_reasoning,
                   label |-> rec.element, sentiment |-> rec.stage3_sentiment]
      [] j = 4 -> [excerpt |-> rec.stage4_excerpt, reasoning |-> rec.stage4_reasoning,
                   label |-> rec.attribute, sentiment |-> rec.stage4_sentiment]

Matches(rec, chain) == \A j \in 1..Len(chain) : RecSpan(rec, j) = chain[j]

\* the records of comment i that carry the fields of the chain, in output order
RecordsOf(i, chain) ==
    SelectSeq(final_outputs[i].classifications, LAMBDA rec : Matches(rec, chain))

At(chain, j) == IF j <= Len(chain) THEN chain[j] ELSE NoSpan

\* the record that terminates at the last span of the chain
ChainRecord(chain) ==
    ClassificationSpan(At(chain, 1), At(chain, 2), At(chain, 3), At(chain, 4))

GenerateEvents == {j \in 1..Len(log) : log[j].op = "generate"}

-----------------------------------------------------------------------------
(* C1: for every max_stage in 1..4 and every list of comments, the call      *)
(* returns exactly one output per input comment, in input order, output i    *)
(* carrying original_comment = comments[i], whatever the engine returned and *)
(* whatever templates were available.                                        *)
C1_OneOutputPerComment ==
    Returned =>
        /\ ValidDepth(max_stage)
        /\ Len(final_outputs) = Len(comments)
        /\ \A i \in 1..Len(comments) : final_outputs[i].original_comment = comments[i]

\* two comments, the first unparseable in Stage 1, a template not available,
\* the second with records
C1_Witness ==
    /\ Returned
    /\ Len(comments) = 2
    /\ ~DictHas(stage_results[1], <<1>>)
    /\ \E f \in DOMAIN templates : f[1] >= 2 /\ templates[f] # "ready"
    /\ final_outputs[2].classifications # <<>>

-----------------------------------------------------------------------------
(* C2: for every max_stage in 1..4 and every span of a comment's Stage-1     *)
(* result, the comment's output holds at least one record whose category,    *)
(* stage1_excerpt, stage1_reasoning and stage1_sentiment are that span's,    *)
(* even when every descendant stage was skipped, unparseable or empty.       *)
C2_EveryStage1SpanHasRecord ==
    Returned =>
        \A i \in 1..Len(comments) : \A ch \in Chains(i, 1) : RecordsOf(i, ch) # <<>>

-----------------------------------------------------------------------------
(* C3: for every span at depth d in 1..3 on a path reached by a comment, if  *)
(* the next stage has no result for its context (the run stopped at d, the   *)
(* context was skipped, the response was unparseable, or the child result    *)
(* holds zero spans), exactly one record is emitted for that span, with the  *)
(* fields of depths 1..d from the chain and every deeper field unset.        *)
C3_OneRecordPerTerminalSpan ==
    Returned =>
        \A i \in 1..Len(comments) : \A d \in 1..3 : \A ch \in Chains(i, d) :
            Kids(i, ch) = <<>> => RecordsOf(i, ch) = <<ChainRecord(ch)>>

-----------------------------------------------------------------------------
(* C4: if load_stage2_prompt reports a category as not available, then for   *)
(* every max_stage >= 2 every comment with a Stage-1 span of that category   *)
(* gets for that span a record terminating at the category level, and no     *)
(* record of any comment has sub-category fields under that category.        *)
NotAvailable2(category) ==
    /\ <<2, Filename[category]>> \in DOMAIN templates
    /\ ~is_yaml_ready(templates, <<2, Filename[category]>>)

C4_SkippedCategoryTerminates ==
    (Returned /\ max_stage >= 2) =>
        \A i \in 1..Len(comments) :
            /\ \A ch \in Chains(i, 1) :
                  NotAvailable2(ch[1].label) =>
                      \E k \in 1..Len(final_outputs[i].classifications) :
                          final_outputs[i].classifications[k] = ChainRecord(ch)
            /\ \A k \in 1..Len(final_outputs[i].classifications) :
                  LET rec == final_outputs[i].classifications[k]
                  IN  NotAvailable2(rec.category) =>
                          /\ RecSpan(rec, 2) = NoSpan
                          /\ RecSpan(rec, 3) = NoSpan
                          /\ RecSpan(rec, 4) = NoSpan

-----------------------------------------------------------------------------
(* C5 as stated: when the next stage's result for a parent span's context    *)
(* holds n >= 1 child spans, exactly n records are emitted for that parent   *)
(* span, one per child span in child order, each carrying the parent chain's *)
(* fields plus the child's label, excerpt, reasoning and sentiment.          *)
C5_ExactlyNRecordsPerParent ==
    Returned =>
        \A i \in 1..Len(comments) : \A d \in 1..3 : \A ch \in Chains(i, d) :
            LET kids == Kids(i, ch)
                recs == RecordsOf(i, ch)
            IN  kids # <<>> =>
                    /\ Len(recs) = Len(kids)
                    /\ \A q \in 1..Len(kids) : Matches(recs[q], Append(ch, kids[q]))

\* the depth of a record: the deepest field group that is populated
RecDepth(rec) ==
    IF \A j \in 1..4 : RecSpan(rec, j) = NoSpan THEN 0
    ELSE CHOOSE j \in 1..4 :
            /\ RecSpan(rec, j) # NoSpan
            /\ \A k \in (j + 1)..4 : RecSpan(rec, k) = NoSpan

RecChain(rec) == [j \in 1..RecDepth(rec) |-> RecSpan(rec, j)]

\* the position among kids of the child a record of the parent carries
ChildIndex(rec, d, kids) ==
    CHOOSE q \in 1..Len(kids) : RecSpan(rec, d + 1) = kids[q]

(* C5, amended: every record's chain of spans is a path present in the       *)
(* result maps of its own comment. When the result for a parent span's       *)
(* context holds n >= 1 child spans, every record of that parent carries the *)
(* parent chain's fields unchanged plus the fields of one of the children,   *)
(* and the records follow the child order; when the child stage is the       *)
(* deepest stage that was run, the parent has exactly n records, the q-th    *)
(* terminating at the q-th child. (Under a shallower parent the number of    *)
(* records per child is the number of records of the child's own expansion.) *)
C5_ExpansionFollowsPaths ==
    Returned =>
        \A i \in 1..Len(comments) :
            /\ \A k \in 1..Len(final_outputs[i].classifications) :
                  LET rec == final_outputs[i].classifications[k]
                  IN  /\ RecDepth(rec) >= 1
                      /\ RecChain(rec) \in Chains(i, RecDepth(rec))
            /\ \A d \in 1..3 : \A ch \in Chains(i, d) :
                  LET kids == Kids(i, ch)
                      recs == RecordsOf(i, ch)
                  IN  kids # <<>> =>
                        /\ \A k \in 1..Len(recs) :
                              \E q \in 1..Len(kids) : Matches(recs[k], Append(ch, kids[q]))
                        /\ \A k1, k2 \in 1..Len(recs) :
                              k1 < k2 => ChildIndex(recs[k1], d, kids)
                                            <= ChildIndex(recs[k2], d, kids)
                        /\ d + 1 = Len(stage_results) =>
                              recs = [q \in 1..Len(kids) |->
                                         ChainRecord(Append(ch, kids[q]))]

\* two comments with the same category, the first expanded into two different
\* sub-categories by the deepest stage, the second with no child span
C5_Witness ==
    /\ Returned
    /\ max_stage = 2
    /\ Len(comments) = 2
    /\ \E ch \in Chains(1, 1) :
          /\ Len(Kids(1, ch)) = 2
          /\ Kids(1, ch)[1].label # Kids(1, ch)[2].label
          /\ Len(RecordsOf(1, ch)) = 2
          /\ \E ch2 \in Chains(2, 1) :
                /\ ch2[1].label = ch[1].label
                /\ DictHas(stage_results[2], <<2, ch2[1].label>>)
                /\ Kids(2, ch2) = <<>>

-----------------------------------------------------------------------------
(* C6: for each comment the number of records equals the number of terminal  *)
(* spans reached, a span being terminal when it is at depth max_stage or the *)
(* next stage has no spans for its context; also when two spans of a comment *)
(* carry the same label and share one child-stage result.                    *)
StoredSpans(i) ==
    UNION {UNION {{<<n, key, p>> : p \in 1..Len(ChildSpans(n, key))}
                  : key \in {k \in Range(stage_results[n].keys) : k[1] = i}}
           : n \in 1..Len(stage_results)}

Terminal(t) ==
    \/ t[1] = Len(stage_results)
    \/ ChildSpans(t[1] + 1, Append(t[2], ChildSpans(t[1], t[2])[t[3]].label)) = <<>>

C6_OneRecordPerTerminalSpan ==
    Returned =>
        \A i \in 1..Len(comments) :
            Len(final_outputs[i].classifications)
                = Cardinality({t \in StoredSpans(i) : Terminal(t)})

-----------------------------------------------------------------------------
(* C7: a comment whose Stage-1 result is absent (unparseable) or holds zero  *)
(* spans has no prompt resolved and no task submitted for it in any of the   *)
(* stages 2..4, and its output has an empty classification list, for every   *)
(* max_stage.                                                                *)
C7_NoStage1SpansNoRecords ==
    \A i \in 1..Len(comments) :
        (Len(stage_results) >= 1 /\ ChildSpans(1, <<i>>) = <<>>) =>
            /\ \A j \in 1..Len(log) :
                  log[j].stage >= 2 =>
                      \A k \in 1..Len(log[j].keys) : log[j].keys[k][1] # i
            /\ \A c \in 1..Len(tasks_by_context.val) :
                  \A k \in 1..Len(tasks_by_context.val[c]) :
                      tasks_by_context.val[c][k].comment_idx # i
            /\ \A n \in 2..Len(stage_results) :
                  \A key \in Range(stage_results[n].keys) : key[1] # i
            /\ Returned => final_outputs[i].classifications = <<>>

\* the first comment unparseable in Stage 1, the second with a Stage-2 task
\* submitted and a record returned
C7_Witness ==
    /\ Returned
    /\ max_stage >= 2
    /\ Len(comments) = 2
    /\ ~DictHas(stage_results[1], <<1>>)
    /\ final_outputs[1].classifications = <<>>
    /\ \E j \in GenerateEvents : log[j].stage = 2 /\ log[j].keys[1][1] = 2
    /\ final_outputs[2].classifications # <<>>

-----------------------------------------------------------------------------
(* C8: a call with max_stage outside 1..4 fails with the invalid-depth error *)
(* before any work: no prompt is loaded, no schema is generated, the engine  *)
(* is never invoked, no template file is read, the usage sets are unchanged  *)
(* and nothing is returned.                                                  *)
C8_InvalidDepthFailsFast ==
    (max_stage < 1 \/ max_stage > 4) =>
        /\ pc \in {"CALLED", "ERROR"}
        /\ log = <<>>
        /\ yaml_usage = InitialUsage
        /\ DOMAIN templates = {<<1, "category_prompt.yaml">>}
        /\ stage = 0
        /\ stage_results = <<>>
        /\ final_outputs = <<>>

\* the error raised for max_stage = 0 on a call with comments
C8_Witness ==
    /\ pc = "ERROR"
    /\ max_stage = 0
    /\ Len(comments) >= 1

-----------------------------------------------------------------------------
(* C9: in every stage, an item whose response parsed to the invalid sentinel *)
(* is absent from the stage's result map, every other item of the batch is   *)
(* stored under its own key, the engine is invoked once per batch and the    *)
(* run goes on.                                                              *)
C9_ParseFailuresOnlyDropped ==
    /\ (max_stage >= 1 /\ max_stage <= 4) => pc # "ERROR"
    /\ \A j1, j2 \in GenerateEvents :
          (log[j1].stage = log[j2].stage /\ log[j1].ctx = log[j2].ctx) => j1 = j2
    /\ \A j \in GenerateEvents :
          LET e == log[j]
          IN  e.stage <= Len(stage_results) =>
                LET map == stage_results[e.stage]
                IN  /\ Len(e.parsed) = Len(e.keys)
                    /\ \A k \in 1..Len(e.keys) :
                          IF e.parsed[k] = Invalid
                          THEN (\A k2 \in 1..Len(e.keys) :
                                    e.keys[k2] = e.keys[k] => e.parsed[k2] = Invalid)
                                  => ~DictHas(map, e.keys[k])
                          ELSE /\ DictHas(map, e.keys[k])
                               /\ DictGet(map, e.keys[k]) = e.parsed[k]

-----------------------------------------------------------------------------
-----------------------------------------------------------------------------
(* C11: a second call on the same instance with the same comments, taxonomy, *)
(* template files and max_stage, against an engine that answers the same     *)
(* prompt and schema the same way, returns outputs identical to the first    *)
(* call's: for every comment the same records with the same field values.    *)
C11_SecondRunSameOutputs ==
    (Returned /\ history # <<>>) => final_outputs = history[1].final_outputs

\* a second call has returned; the first call expanded a category into
\* sub-categories, met a template that was not available and an unparseable
\* response, and the instance's usage sets were not empty when it began
C11_Witness ==
    /\ Returned
    /\ history # <<>>
    /\ max_stage >= 2
    /\ \E i \in 1..Len(comments) :
          \E k \in 1..Len(final_outputs[i].classifications) :
              final_outputs[i].classifications[k].sub_category # None
    /\ \E f \in DOMAIN templates : templates[f] # "ready"
    /\ \E j \in 1..Len(log) : log[j].op = "generate" /\ Invalid \in Range(log[j].parsed)
    /\ yaml_usage[2].used # {}

-----------------------------------------------------------------------------
(* C12: the Venue scenario. A comment whose Stage-1 result holds a "Venue"   *)
(* span with negative sentiment (possibly followed by a second "Venue"       *)
(* span): with max_stage = 1 its output holds exactly one record per Stage-1 *)
(* span, sub-category fields unset; with max_stage = 2, the template of      *)
(* Venue available and a Stage-2 result for Venue of a negative "Hotel" span *)
(* and a positive "Food" span, its output holds for the Venue span a record  *)
(* terminating at "Hotel" with negative sentiment and one terminating at     *)
(* "Food" with positive sentiment, and nothing else.                         *)
VenueScenario(i) ==
    LET s1 == ChildSpans(1, <<i>>)
    IN  /\ Len(s1) \in 1..2
        /\ \A p \in 1..Len(s1) : s1[p].label = "Venue"
        /\ s1[1].sentiment = "negative"

HotelFoodScenario(i) ==
    LET s2 == ChildSpans(2, <<i, "Venue">>)
    IN  /\ get_subcategories(hierarchy, "Venue") = <<"Hotel", "Food">>
        /\ <<2, "venue.yaml">> \in DOMAIN templates
        /\ templates[<<2, "venue.yaml">>] = "ready"
        /\ Len(s2) = 2
        /\ s2[1].label = "Hotel" /\ s2[1].sentiment = "negative"
        /\ s2[2].label = "Food" /\ s2[2].sentiment = "positive"

\* the record carries the Stage-1 span and nothing below depth d
EndsAt(rec, d) == \A j \in (d + 1)..4 : RecSpan(rec, j) = NoSpan

-----------------------------------------------------------------------------
(* C13: every record of every output is prefix-closed and bounded by the run *)
(* depth: category and the stage-1 fields are always populated; the field    *)
(* group of depth d is populated only if the groups of all shallower depths  *)
(* are populated; no field group of a depth beyond max_stage is populated.   *)
GroupFields(rec, d) ==
    {RecSpan(rec, d).label, RecSpan(rec, d).excerpt,
     RecSpan(rec, d).reasoning, RecSpan(rec, d).sentiment}

\* some field of the group is set
Populated(rec, d) == GroupFields(rec, d) # {None}

\* every field of the group is set
FullyPopulated(rec, d) == None \notin GroupFields(rec, d)

C13_RecordsPrefixClosed ==
    Returned =>
        \A i \in 1..Len(comments) :
            \A k \in 1..Len(final_outputs[i].classifications) :
                LET rec == final_outputs[i].classifications[k]
                IN  /\ FullyPopulated(rec, 1)
                    /\ \A d \in 2..4 :
                          Populated(rec, d) =>
                              /\ d <= max_stage
                              /\ \A e \in 1..d : FullyPopulated(rec, e)

\* a run of depth 3 that returned a record ending at an element next to a
\* record ending at a sub-category
C13_Witness ==
    /\ Returned
    /\ max_stage = 3
    /\ \E i \in 1..Len(comments) :
          \E k1, k2 \in 1..Len(final_outputs[i].classifications) :
              /\ RecDepth(final_outputs[i].classifications[k1]) = 3
              /\ RecDepth(final_outputs[i].classifications[k2]) = 2

-----------------------------------------------------------------------------
(* Schemas and validation against the taxonomy *)

\* the names of the children of the node a context path leads to, walking the
\* taxonomy from its root; no children when the path leaves the taxonomy
RECURSIVE ChildrenOf(_, _)
ChildrenOf(node, path) ==
    IF path = <<>> THEN Names(node.children)
    ELSE IF \E i \in 1..Len(node.children) : node.children[i].name = Head(path)
         THEN ChildrenOf(node.children[CHOOSE i \in 1..Len(node.children) :
                                          node.children[i].name = Head(path)],
                         Tail(path))
         ELSE <<>>

KeyOrder == <<"category", "sub_category", "element">>

\* the context dict holds the keys of stage n
HasStageKeys(context, n) ==
    n = 1 \/ (context.given /\ \A i \in 1..(n - 1) : KeyOrder[i] \in DOMAIN context.dict)

\* the context path a context dict names at stage n
PathOf(context, n) == [i \in 1..(n - 1) |-> context.dict[KeyOrder[i]]]

SchemaQuery == query.fn = "get_schema"

ValidateQuery ==
    /\ query.fn = "validate_prediction"
    /\ query.args[1] \in 1..4
    /\ HasStageKeys(query.args[3], query.args[1])

\* validate_prediction answers whether the label is a child of the path
ValidatesChildren ==
    ValidateQuery =>
        query.result = (query.args[2] \in
            Range(ChildrenOf(hierarchy, PathOf(query.args[3], query.args[1]))))

\* C14 as stated: the labels a generated schema accepts are exactly the children
\* of its context path, and validate_prediction is true exactly for them
C14_SchemaLabelsAreChildren ==
    /\ SchemaQuery =>
          query.result.labels = Range(ChildrenOf(hierarchy, query.args[2]))
    /\ ValidatesChildren

\* C14: for every stage and context path with children, the labels the
\* generated schema accepts are exactly the navigator's children of the path;
\* for a path without children the schema accepts the empty string alone; and
\* validate_prediction(stage, label, context) is true if and only if the label
\* is one of the children, so it is false for the empty string when there are
\* no children
C14_SchemaLabelsAreChildrenOrSentinel ==
    /\ SchemaQuery =>
          LET children == ChildrenOf(hierarchy, query.args[2])
          IN  query.result.labels = IF children = <<>> THEN {""} ELSE Range(children)
    /\ ValidatesChildren
    /\ (ValidateQuery /\ query.args[2] = ""
          /\ ChildrenOf(hierarchy, PathOf(query.args[3], query.args[1])) = <<>>)
        => query.result = FALSE

\* the element schema of (Venue, Hotel) accepts Room alone
C14_Witness ==
    /\ hierarchy = VenueHierarchy
    /\ query = Query("get_schema", <<3, <<"Venue", "Hotel">> >>, Schema(3, {"Room"}))

-----------------------------------------------------------------------------
(* Names the taxonomy does not hold *)

\* the path of names leads from the node to a node of the taxonomy
RECURSIVE PathExists(_, _)
PathExists(node, path) ==
    \/ path = <<>>
    \/ \E i \in 1..Len(node.children) :
          /\ node.children[i].name = Head(path)
          /\ PathExists(node.children[i], Tail(path))

NavigatorQuery == query.fn \in {"get_subcategories", "get_elements", "get_attributes"}

\* the path a navigator query names; a sub-category of None is left out
QueryPath == SelectSeq(query.args, LAMBDA name : name # None)

\* C15: get_subcategories, get_elements (with or without a sub-category) and
\* get_attributes return the empty sequence for every name or combination of
\* names that is not a path of the taxonomy, they never raise, and the call
\* leaves the navigator's taxonomy as it was
C15_UnknownNamesGiveNoChildren ==
    /\ [](NavigatorQuery /\ ~PathExists(hierarchy, QueryPath) => query.result = <<>>)
    /\ [][query' # query => hierarchy' = hierarchy]_vars

\* Hotel is a sub-category of Venue, not of Wi-Fi: no elements
C15_Witness ==
    /\ hierarchy = VenueHierarchy
    /\ query = Query("get_elements", <<"Wi-Fi", "Hotel">>, <<>>)

-----------------------------------------------------------------------------
(* validate_prediction on every input *)

\* C16: validate_prediction returns a boolean for every stage value, label and
\* context -- a context without the keys of the stage, one naming unknown
\* nodes, an omitted one -- and false for a stage outside 1..4, and the call
\* leaves the taxonomy as it was
C16_ValidateAlwaysReturnsBoolean ==
    /\ [](query.fn = "validate_prediction" =>
            /\ query.raised = None
            /\ query.result \in BOOLEAN
            /\ query.args[1] \notin 1..4 => query.result = FALSE)
    /\ [][query' # query => hierarchy' = hierarchy]_vars

-----------------------------------------------------------------------------
(* Order of the stages *)

\* the prompt of a load event was resolved: its task goes to the engine
ResolvedLoad(e) ==
    /\ e.op = "load"
    /\ \/ e.stage = 1
       \/ LoadPrompt(templates, e.stage, comments[e.keys[1][1]], e.ctx) # NoPrompt

Resolved(j) == ResolvedLoad(log[j])

\* the batch of the task of load event j has come back from the engine
BatchReturned(j) ==
    \E k \in GenerateEvents :
        /\ log[k].stage = log[j].stage
        /\ log[k].ctx = log[j].ctx
        /\ \E t \in 1..Len(log[k].keys) : log[k].keys[t][1] = log[j].keys[1][1]

\* C17: the stages run in the order 1, 2, 3, 4: every prompt load and every
\* generation of stage N comes before every one of stage N+1, when stage N+1
\* has begun every batch of stage N has returned and the results of stage N
\* are stored, and nothing is loaded or generated for a stage beyond max_stage
C17_StagesInOrder ==
    /\ \A i, j \in 1..Len(log) : i < j => log[i].stage <= log[j].stage
    /\ \A i, j \in 1..Len(log) :
          (log[i].stage < log[j].stage /\ Resolved(i)) => BatchReturned(i)
    /\ \A j \in 1..Len(log) :
          /\ log[j].stage \in 1..max_stage
          /\ log[j].stage - 1 <= Len(stage_results)

\* stage 3 runs after two batches of stage 2
C17_Witness ==
    /\ \E j \in GenerateEvents : log[j].stage = 3
    /\ \E j, k \in GenerateEvents :
          log[j].stage = 2 /\ log[k].stage = 2 /\ log[j].ctx # log[k].ctx

-----------------------------------------------------------------------------
(* One engine invocation per context *)

\* the result keys of the tasks of a stage and context, in the order in which
\* their prompts were resolved
TaskKeys(n, ctx) ==
    LET loads == SelectSeq(log, LAMBDA e : ResolvedLoad(e) /\ e.stage = n /\ e.ctx = ctx)
    IN  [t \in 1..Len(loads) |-> <<loads[t].keys[1][1]>> \o ctx]

\* generate event j asks for the schema of its context: the schema is
\* generated right before it, and what parsed carries labels of that schema
UsesSchemaOfContext(j) ==
    /\ j > 1
    /\ log[j - 1].op = "schema"
    /\ log[j - 1].stage = log[j].stage
    /\ log[j - 1].ctx = log[j].ctx
    /\ \A t \in 1..Len(log[j].parsed) :
          log[j].parsed[t] # Invalid =>
            \A p \in 1..Len(log[j].parsed[t].classifications) :
                log[j].parsed[t].classifications[p].label
                    \in SchemaFor(hierarchy, log[j].stage, log[j].ctx).labels

\* C18: in stages 2, 3 and 4 the engine is invoked exactly once for each
\* context that has a task, never for a context without one and never once per
\* comment: the one batch holds the tasks of all comments of the context and
\* uses the schema of the context; stage 1 is one invocation over all comments
\* with the category schema
C18_OneInvocationPerContext ==
    /\ \A j, k \in GenerateEvents :
          (log[j].stage = log[k].stage /\ log[j].ctx = log[k].ctx) => j = k
    /\ \A j \in GenerateEvents :
          /\ UsesSchemaOfContext(j)
          /\ log[j].stage = 1 =>
                log[j].keys = [i \in 1..Len(comments) |-> <<i>>]
          /\ log[j].stage > 1 =>
                /\ log[j].keys # <<>>
                /\ log[j].keys = TaskKeys(log[j].stage, log[j].ctx)
    /\ \A i \in 1..Len(log) :
          (Resolved(i) /\ log[i].stage <= Len(stage_results)) => BatchReturned(i)
    /\ Len(stage_results) >= 1 => \E j \in GenerateEvents : log[j].stage = 1

\* two comments share the context Venue: one stage-2 invocation with both
C18_Witness ==
    /\ Returned
    /\ \E j \in GenerateEvents :
          /\ log[j].stage = 2
          /\ log[j].keys = <<<<1, "Venue">>, <<2, "Venue">>>>

-----------------------------------------------------------------------------
(* Skipped contexts and used contexts *)

\* the name under which the usage sets record the context of a load event:
\* the category, the sub-category, the element
Recorded(e) == e.ctx[Len(e.ctx)]

\* the result maps of stage n, stored or being filled, hold a key of the context
HoldsKeyOf(n, ctx) ==
    \/ /\ n <= Len(stage_results)
       /\ \E k \in 1..Len(stage_results[n].keys) : Tail(stage_results[n].keys[k]) = ctx
    \/ /\ stage = n
       /\ \E k \in 1..Len(all_results.keys) : Tail(all_results.keys[k]) = ctx

\* C19: a context whose template is not available has no task submitted to the
\* engine and no key in the stage's result map, and is recorded as skipped and
\* not as used; a context whose template is available is recorded as used and
\* not as skipped, whatever its responses parse to
C19_SkippedNeverUsed ==
    \A j \in 1..Len(log) :
        (log[j].op = "load" /\ log[j].stage >= 2) =>
            LET e == log[j]
            IN  IF ResolvedLoad(e)
                THEN /\ Recorded(e) \in yaml_usage[e.stage].used
                     /\ Recorded(e) \notin yaml_usage[e.stage].skipped
                ELSE /\ Recorded(e) \in yaml_usage[e.stage].skipped
                     /\ Recorded(e) \notin yaml_usage[e.stage].used
                     /\ ~\E k \in GenerateEvents :
                            log[k].stage = e.stage /\ log[k].ctx = e.ctx
                     /\ ~HoldsKeyOf(e.stage, e.ctx)

\* Venue is skipped, Wi-Fi is used and its one response failed to parse:
\* neither has a stage-2 result, the usage sets tell them apart
C19_Witness ==
    /\ Returned
    /\ max_stage = 2
    /\ yaml_usage[2].skipped = {"Venue"}
    /\ yaml_usage[2].used = {"Wi-Fi"}
    /\ stage_results[2] = EmptyDict
    /\ \E k \in GenerateEvents :
          log[k].stage = 2 /\ log[k].ctx = <<"Wi-Fi">> /\ log[k].parsed = <<Invalid>>

-----------------------------------------------------------------------------
(* A stage without tasks *)

\* stage n has been entered and none of its contexts produced a task
NoTasksAt(n) ==
    /\ stage >= n
    /\ ~\E j \in 1..Len(log) : log[j].stage = n /\ Resolved(j)

\* C20: when no context of stage N, 2 <= N <= max_stage, produced a task, the
\* engine is not invoked and no prompt is resolved in stage N or deeper, the
\* result maps of stage N and of every deeper stage are empty, and the call
\* goes on to return, without error, one output per comment
C20_NoTasksEndsEarly ==
    \A n \in 2..4 :
        NoTasksAt(n) =>
            /\ ~\E j \in 1..Len(log) :
                  log[j].stage >= n /\ (log[j].op = "generate" \/ Resolved(j))
            /\ \A m \in n..Len(stage_results) : stage_results[m] = EmptyDict
            /\ all_results = EmptyDict
            /\ pc \in {"DONE", "STOP"}
            /\ Returned \/ ENABLED Next
            /\ Returned =>
                  /\ Len(stage_results) = max_stage
                  /\ Len(final_outputs) = Len(comments)

\* stage 2 stored a sub-category, every stage-3 context was skipped, and the
\* call of depth 4 returned
C20_Witness ==
    /\ Returned
    /\ max_stage = 4
    /\ stage_results[2] # EmptyDict
    /\ NoTasksAt(3)
    /\ \E j \in 1..Len(log) : log[j].stage = 3 /\ log[j].op = "load"

-----------------------------------------------------------------------------
(* Results go back to their tasks by position *)

\* the result maps written so far: the stored ones and the one being filled
MapOf(n) ==
    IF n <= Len(stage_results) THEN stage_results[n]
    ELSE IF n = stage THEN all_results ELSE EmptyDict

\* C21: what a result map holds under a key is the parsed result at the
\* position of a task with that key (that comment index and that context) in
\* the batch of that context, never the result of another task; and the valid
\* result of a task whose key no other task of the batch has is under its key
C21_ResultsStoredPositionally ==
    /\ \A n \in 1..4 : \A k \in 1..Len(MapOf(n).keys) :
          \E j \in GenerateEvents :
              /\ log[j].stage = n
              /\ log[j].ctx = Tail(MapOf(n).keys[k])
              /\ \E t \in 1..Len(log[j].keys) :
                    /\ log[j].keys[t] = MapOf(n).keys[k]
                    /\ log[j].parsed[t] = MapOf(n).val[k]
    /\ \A j \in GenerateEvents : \A t \in 1..Len(log[j].keys) :
          (/\ log[j].parsed[t] # Invalid
           /\ \A u \in 1..Len(log[j].keys) : log[j].keys[u] = log[j].keys[t] => u = t)
          => /\ DictHas(MapOf(log[j].stage), log[j].keys[t])
             /\ DictGet(MapOf(log[j].stage), log[j].keys[t]) = log[j].parsed[t]

\* two comments in the batch of Venue with different results, each stored
\* under its own comment
C21_Witness ==
    /\ Returned
    /\ max_stage = 2
    /\ DictHas(stage_results[2], <<1, "Venue">>)
    /\ DictHas(stage_results[2], <<2, "Venue">>)
    /\ DictGet(stage_results[2], <<1, "Venue">>) # DictGet(stage_results[2], <<2, "Venue">>)

-----------------------------------------------------------------------------
(* Contexts without children *)

\* the node of the context path has no children: the label enum of the
\* context's schema is the empty string alone
Childless(ctx) == ChildrenOf(hierarchy, ctx) = <<>>

\* the labels of the first d levels of a record
RecLabels(rec, d) == [j \in 1..d |-> RecSpan(rec, j).label]

\* C22: a context whose taxonomy node has no children has nothing to extract:
\* no span is stored for it, no record carries a label of its depth (not even
\* the empty string), and no prompt is loaded for a context derived from it
C22_ChildlessContextExtractsNothing ==
    /\ \A n \in 2..4 : \A k \in 1..Len(MapOf(n).keys) :
          Childless(Tail(MapOf(n).keys[k])) => MapOf(n).val[k].classifications = <<>>
    /\ \A j \in 1..Len(log) :
          (log[j].op = "load" /\ log[j].stage >= 3)
              => ~Childless(SubSeq(log[j].ctx, 1, Len(log[j].ctx) - 1))
    /\ Returned =>
          \A i \in 1..Len(final_outputs) :
              \A r \in 1..Len(final_outputs[i].classifications) :
                  \A d \in 2..4 :
                      Childless(RecLabels(final_outputs[i].classifications[r], d - 1))
                          => RecSpan(final_outputs[i].classifications[r], d).label = None

-----------------------------------------------------------------------------
(* Keys of the result maps *)

\* C23: no two tasks submitted in a stage have the same result-map key (comment
\* index and context), so every key is written at most once and no parsed
\* result is replaced by another
C23_TaskKeysUnique ==
    \A j, k \in GenerateEvents :
        \A t \in 1..Len(log[j].keys) : \A u \in 1..Len(log[k].keys) :
            (log[j].stage = log[k].stage /\ log[j].keys[t] = log[k].keys[u])
                => (j = k /\ t = u)

-----------------------------------------------------------------------------
(* Present and absent keys *)

\* some task with the key was submitted in stage n and its response parsed
ParsedFor(n, key) ==
    \E j \in GenerateEvents :
        /\ log[j].stage = n
        /\ \E t \in 1..Len(log[j].keys) :
              log[j].keys[t] = key /\ log[j].parsed[t] # Invalid

\* C24: a result map holds a key if and only if a task of that comment and
\* context was submitted and its response parsed; a response that parsed to a
\* container with no spans is a present key with the empty sequence; a skipped
\* context and an unparseable response leave the key absent
C24_KeyPresentIffParsed ==
    /\ \A n \in 1..4 : \A k \in 1..Len(MapOf(n).keys) : ParsedFor(n, MapOf(n).keys[k])
    /\ \A j \in GenerateEvents : \A t \in 1..Len(log[j].keys) :
          /\ ParsedFor(log[j].stage, log[j].keys[t])
                <=> DictHas(MapOf(log[j].stage), log[j].keys[t])
          /\ (log[j].parsed[t] # Invalid /\ log[j].parsed[t].classifications = <<>>)
                => DictGet(MapOf(log[j].stage), log[j].keys[t]).classifications = <<>>
    /\ \A j \in 1..Len(log) :
          (log[j].op = "load" /\ ~Resolved(j))
              => \A n \in 2..4 : \A k \in 1..Len(MapOf(n).keys) :
                    (n = log[j].stage) => Tail(MapOf(n).keys[k]) # log[j].ctx

-----------------------------------------------------------------------------
(* Order of the tasks and of the contexts *)

\* C25: in stages 2, 3 and 4 the tasks of one context are submitted in the
\* order of the comments, and the contexts are processed in the order in which
\* a scan of the parent results comment by comment first meets them: a context
\* with a task of an earlier comment is not processed after a context whose
\* tasks all belong to later comments
C25_TasksAndContextsInCommentOrder ==
    /\ \A j \in GenerateEvents :
          log[j].stage >= 2 =>
              \A t, u \in 1..Len(log[j].keys) :
                  t < u => log[j].keys[t][1] <= log[j].keys[u][1]
    /\ \A j, k \in GenerateEvents :
          (j < k /\ log[j].stage = log[k].stage /\ log[j].stage >= 2)
              => log[j].keys[1][1] <= log[k].keys[1][1]

-----------------------------------------------------------------------------
(* Independence of the contexts of a stage *)

\* a result map as the set of its items, whatever the order of insertion
Items(d) == {<<d.keys[k], d.val[k]>> : k \in 1..Len(d.keys)}

\* the result map of the running stage after the step
NewMap == IF pc' = "DONE" THEN stage_results'[stage] ELSE all_results'

\* a batch writes only keys that carry its own context
WritesOwnContext ==
    (pc = "PENDING" /\ stage >= 2 /\ log' # log) =>
        \A k \in 1..Len(NewMap.keys) :
            Tail(NewMap.keys[k]) # log'[Len(log')].ctx
                => /\ DictHas(all_results, NewMap.keys[k])
                   /\ DictGet(all_results, NewMap.keys[k]) = NewMap.val[k]

-----------------------------------------------------------------------------
(* Counts of the usage report *)

\* the contexts of stage n for which a batch was issued, and those whose
\* template was not available
BatchContexts(n) == {log[j].ctx : j \in {k \in GenerateEvents : log[k].stage = n}}

SkippedContexts(n) ==
    {log[j].ctx : j \in {k \in 1..Len(log) :
                            log[k].op = "load" /\ log[k].stage = n /\ ~Resolved(k)}}

\* C27: after a run, in each of stages 2, 3 and 4 as many entries are recorded
\* as used as there are contexts with a generation batch, and as many as
\* skipped as there are contexts whose template was not available
C27_UsageCountsContexts ==
    Returned =>
        \A n \in 2..4 :
            /\ Cardinality(yaml_usage[n].used) = Cardinality(BatchContexts(n))
            /\ Cardinality(yaml_usage[n].skipped) = Cardinality(SkippedContexts(n))

-----------------------------------------------------------------------------
(* The navigator on taxonomies with unique sibling names *)

\* no node of the tree has two children of one name
RECURSIVE UniqueSiblings(_)
UniqueSiblings(node) ==
    /\ \A i, j \in 1..Len(node.children) :
          node.children[i].name = node.children[j].name => i = j
    /\ \A i \in 1..Len(node.children) : UniqueSiblings(node.children[i])

\* C28: on a taxonomy with unique sibling names get_categories returns the
\* names of depth 1 in tree order, get_subcategories(c) the child names of c,
\* get_elements(c, s) the child names of s under c and get_elements(c, None)
\* those of c, get_attributes(c, s, e) the child names of e under s, or of e
\* directly under c when s is None, each in tree order; no query changes the
\* taxonomy
C28_NavigatorReturnsChildrenInOrder ==
    /\ []((UniqueSiblings(hierarchy)
            /\ (NavigatorQuery \/ query.fn = "get_categories"))
          => query.result = ChildrenOf(hierarchy, QueryPath))
    /\ [][hierarchy' = hierarchy]_vars

\* the attributes of the element Hotel directly under Venue
C28_Witness ==
    /\ hierarchy = VenueHierarchy
    /\ query = Query("get_attributes", <<"Venue", None, "Hotel">>, <<"Room">>)

-----------------------------------------------------------------------------
(* Parent-closed result maps *)

\* the result map of stage n holds, under the key, a span with the label
HoldsSpan(n, key, label) ==
    /\ DictHas(MapOf(n), key)
    /\ \E p \in 1..Len(DictGet(MapOf(n), key).classifications) :
          DictGet(MapOf(n), key).classifications[p].label = label

\* C29: every key of the result map of stage 2, 3 or 4 -- stored or being
\* filled -- has, in the map of the stage above, a result under the key
\* without its last label that holds a span with that label, and the comment
\* index of every key of every map is an index of the input list
C29_ResultMapsParentClosed ==
    \A n \in 1..4 : \A k \in 1..Len(MapOf(n).keys) :
        LET key == MapOf(n).keys[k]
        IN  /\ key[1] \in 1..Len(comments)
            /\ Len(key) = n
            /\ n >= 2 => HoldsSpan(n - 1, SubSeq(key, 1, n - 1), key[n])

\* a stage-3 key under its stage-2 and stage-1 parents
C29_Witness ==
    /\ Len(stage_results) >= 3
    /\ DictHas(stage_results[3], <<1, "Venue", "Hotel">>)
    /\ HoldsSpan(2, <<1, "Venue">>, "Hotel")
    /\ HoldsSpan(1, <<1>>, "Venue")


\* the labels the loaders of stage n recorded during the current call
UsedInCall(n) ==
    IF n = 1 THEN IF stage >= 1 THEN {"Stage 1"} ELSE {}
    ELSE {Recorded(log[j]) : j \in {k \in 1..Len(log) :
              log[k].op = "load" /\ log[k].stage = n /\ Resolved(k)}}

SkippedInCall(n) ==
    IF n = 1 THEN {}
    ELSE {Recorded(log[j]) : j \in {k \in 1..Len(log) :
              log[k].op = "load" /\ log[k].stage = n /\ ~Resolved(k)}}

\* C30: once a call has returned, the used and the skipped set of every stage
\* hold exactly what that call recorded, and nothing an earlier call on the
\* same instance recorded.
C30_UsageDescribesLastCall ==
    Returned =>
        \A n \in 1..4 :
            /\ yaml_usage[n].used = UsedInCall(n)
            /\ yaml_usage[n].skipped = SkippedInCall(n)

====
